---- MODULE Spec2Model ----
(***************************************************************************)
(* A model of the graph-construction layer of the diagrams package         *)
(* (src/diagrams/__init__.py): the two context variables, Diagram,         *)
(* Cluster, Node and Edge, and the body of the graphviz handle each        *)
(* Context owns.  Python strings are sequences of one-character strings;   *)
(* fixed pieces of text that no node identity of the model can overlap     *)
(* ("cluster_", "subgraph", "->", a generated uuid) are single tokens.     *)
(***************************************************************************)
EXTENDS Integers, Sequences, FiniteSets, TLC

(* ------------------------------ bounds --------------------------------- *)
MaxDiagrams == 2
MaxObjs == 3
MaxClusters == 1
MaxConnects == 2
MaxOps == 4
MaxScopeClusters == 2
MaxConfigObjs == 2
MaxConfigConnects == 1
MaxEdgeNodes == 2
MaxEdges == 1
MaxList == 2
MaxEdgeConnects == 2
MaxNestObjs == 5
MaxAppendNodes == 2
MaxAppendEdges == 2

(* ------------------------------ strings -------------------------------- *)
LowerChars == <<"a","b","c","d","e","f","g","h","i","j","k","l","m",
                "n","o","p","q","r","s","t","u","v","w","x","y","z">>
UpperChars == <<"A","B","C","D","E","F","G","H","I","J","K","L","M",
                "N","O","P","Q","R","S","T","U","V","W","X","Y","Z">>

IndexOf(c, s) == IF \E i \in 1..Len(s) : s[i] = c
                 THEN CHOOSE i \in 1..Len(s) : s[i] = c
                 ELSE 0

UpperChar(c) == IF IndexOf(c, LowerChars) > 0
                THEN UpperChars[IndexOf(c, LowerChars)] ELSE c

LowerChar(c) == IF IndexOf(c, UpperChars) > 0
                THEN LowerChars[IndexOf(c, UpperChars)] ELSE c

\* str.upper() and str.lower()
upper(s) == [i \in 1..Len(s) |-> UpperChar(s[i])]
lower(s) == [i \in 1..Len(s) |-> LowerChar(s[i])]

\* Python's `s in t` on two strings
IsSubstr(s, t) ==
    \E i \in 0..(Len(t) - Len(s)) : SubSeq(t, i + 1, i + Len(s)) = s

\* Context.__directions, Diagram.__curvestyles, Diagram.__outformats
directions == { <<"T","B">>, <<"B","T">>, <<"L","R">>, <<"R","L">> }
curvestyles == { <<"o","r","t","h","o">>, <<"c","u","r","v","e","d">> }
outformats == { <<"p","n","g">>, <<"j","p","g">>, <<"s","v","g">>,
                <<"p","d","f">>, <<"d","o","t">> }
bgcolors == <<"#E5F5FD", "#EBF3E7", "#ECE8F6", "#FDF7E3">>

\* A direction check that does not fold the case
_validate_direction_exact(direction) == direction \in directions

_validate_direction(direction) == upper(direction) \in directions
_validate_curvestyle(curvestyle) == lower(curvestyle) \in curvestyles
_validate_outformat(outformat) == lower(outformat) \in outformats

\* The values a test program passes to the constructors.
DirectionInputs == { <<"l","r">>, <<"L","R","X">> }
CurveInputs == { <<"O","r","t","h","o">>, <<"z","i","g","z","a","g">> }
FormatInputs ==
    { [list |-> FALSE, f |-> << <<"p","n","g">> >>],
      [list |-> FALSE, f |-> << <<"g","i","f">> >>],
      [list |-> TRUE,  f |-> << <<"p","n","g">>, <<"S","V","G">> >>],
      [list |-> TRUE,  f |-> << <<"p","n","g">>, <<"b","m","p">> >>] }
ClusterDirectionInputs == { <<"L","R">> }
ConfigDirections ==
    { <<"T","B">>, <<"b","t">>, <<"r","L">>, <<"L","R","X">>, <<>> }
ConfigCurves ==
    { <<"o","r","t","h","o">>, <<"C","u","r","v","e","d">>,
      <<"z","i","g","z","a","g">> }
ConfigFormats ==
    { [list |-> FALSE, f |-> << <<"p","n","g">> >>],
      [list |-> FALSE, f |-> << <<"g","i","f">> >>],
      [list |-> TRUE,  f |-> << <<"p","n","g">>, <<"s","v","g">> >>],
      [list |-> TRUE,  f |-> << <<"D","o","t">>, <<"p","d","f">>,
                                <<"J","P","G">> >>],
      [list |-> TRUE,  f |-> << <<"p","n","g">>, <<"b","m","p">> >>],
      [list |-> TRUE,  f |-> << >>] }
LabelInputs == { <<"k">> }
NodeidInputs == { <<>>, <<"q">>, <<"q","k">> }
\* Edge objects: the forward and reverse flags and the label of _attrs
EdgeInputs ==
    { [forward |-> TRUE,  reverse |-> FALSE, label |-> <<>>],
      [forward |-> FALSE, reverse |-> FALSE, label |-> <<"v">>] }

\* uuid.uuid4().hex of the i-th constructed object: distinct tokens
UuidPool == <<"u1","u2","u3","u4","u5","u6","u7","u8">>
_rand_id(i) == << UuidPool[i] >>

(* ----------------------------- references ------------------------------ *)
\* None is 0, the i-th Diagram is -i, the j-th Cluster or Node is j.
None == 0
DiagramRef(i) == 0 - i
IsDiagram(r) == r < 0
IsObj(r) == r > 0

VARIABLES
    ctxDiagram,   \* the ContextVar __diagram: [set, val]
    ctxCluster,   \* the ContextVar __cluster: [set, val]
    diagrams,     \* the Diagram objects, in construction order
    objs,         \* the Cluster and Node objects, in construction order
    stack,        \* the with-statements now open, innermost last
    pc,           \* position inside Diagram.__exit__
    connects,     \* the calls of Diagram.connect so far
    last,         \* the last operation and how it ended
    edgeobjs,     \* the Edge objects a program holds, in construction order
    ptrBefore     \* __cluster as it was when each open with was entered

vars == <<ctxDiagram, ctxCluster, diagrams, objs, stack, pc, connects, last,
          edgeobjs, ptrBefore>>

(* ------------------------- the graphviz handle ------------------------- *)
\* One line of Digraph.body.  ind counts the leading tabs.
NodeLine(id, label) ==
    [k |-> "node", ind |-> 1, a |-> id, b |-> label, c |-> <<>>,
     dir |-> "", lt |-> <<>>, lh |-> <<>>, bg |-> 0]

\* Digraph.edge(tail, head, **attrs)
EdgeLine(tail, head, attrs) ==
    [k |-> "edge", ind |-> 1, a |-> tail, b |-> head, c |-> attrs.label,
     dir |-> attrs.dir, lt |-> attrs.ltail, lh |-> attrs.lhead, bg |-> 0]

\* The text of a line, as far as a node identity can occur in it.
LineText(l) ==
    CASE l.k = "node"  -> l.a \o <<"[label=">> \o l.b \o <<"]">>
      [] l.k = "edge"  -> l.a \o <<"->">> \o l.b \o <<"[dir=", l.dir, "label=">>
                              \o l.c \o <<"ltail=">> \o l.lt \o <<"lhead=">>
                              \o l.lh \o <<"]">>
      [] l.k = "open"  -> <<"subgraph">> \o l.a \o <<"{">>
      [] l.k = "graph" -> <<"graph[bgcolor=", bgcolors[l.bg], "label=">> \o l.b
                              \o <<"rankdir=">> \o l.c \o <<"]">>
      [] OTHER         -> <<"}">>

\* Digraph.subgraph(graph): the lines of graph as they are now, one tab deeper
Indent(lines) == [i \in 1..Len(lines) |-> [lines[i] EXCEPT !.ind = @ + 1]]

SubgraphLines(o) ==
    Indent(<< [k |-> "open", ind |-> 0, a |-> o.name, b |-> <<>>, c |-> <<>>,
               dir |-> "", lt |-> <<>>, lh |-> <<>>, bg |-> 0],
              [k |-> "graph", ind |-> 1, a |-> <<>>, b |-> o.glabel,
               c |-> o.rankdir, dir |-> "", lt |-> <<>>, lh |-> <<>>,
               bg |-> o.bg] >>
           \o o.body
           \o << [k |-> "close", ind |-> 0, a |-> <<>>, b |-> <<>>, c |-> <<>>,
                  dir |-> "", lt |-> <<>>, lh |-> <<>>, bg |-> 0] >>)

\* list.remove(x): drops the first element equal to x
ListRemove(body, x) ==
    LET i == CHOOSE j \in 1..Len(body) :
                 body[j] = x /\ \A m \in 1..(j - 1) : body[m] # x
    IN  SubSeq(body, 1, i - 1) \o SubSeq(body, i + 1, Len(body))

\* Context.remove_node: a for loop over the list it removes from
RECURSIVE RemoveLoop(_, _, _)
RemoveLoop(body, i, nodeid) ==
    IF i > Len(body) THEN body
    ELSE IF IsSubstr(nodeid, LineText(body[i]))
         THEN RemoveLoop(ListRemove(body, body[i]), i + 1, nodeid)
         ELSE RemoveLoop(body, i + 1, nodeid)

Context_remove_node(body, nodeid) == RemoveLoop(body, 1, nodeid)

(* ------------------------------- Edge ---------------------------------- *)
\* An Edge is [node, forward, reverse, _attrs]; _attrs has the keys label,
\* ltail, lhead and dir, with <<>> or "" for a key the dict does not hold.
\* An Edge.attrs that lets an entry of _attrs override the direction:
\* {"dir": direction, **self._attrs}
EdgeAttrsOwnFirst(e) ==
    [e._attrs EXCEPT !.dir =
        IF @ # "" THEN @
        ELSE IF e.forward /\ e.reverse THEN "both"
        ELSE IF e.forward THEN "forward"
        ELSE IF e.reverse THEN "back"
        ELSE "none"]

\* Edge.attrs: {**self._attrs, "dir": direction}
EdgeAttrs(e) ==
    [e._attrs EXCEPT !.dir =
        IF e.forward /\ e.reverse THEN "both"
        ELSE IF e.forward THEN "forward"
        ELSE IF e.reverse THEN "back"
        ELSE "none"]

\* Edge(node, forward, reverse, label, dir=dir); "" stands for no dir
NewEdge(node, forward, reverse, label, dir) ==
    [node |-> node, forward |-> forward, reverse |-> reverse,
     _attrs |-> [label |-> label, ltail |-> <<>>, lhead |-> <<>>,
                 dir |-> dir]]

(* --------------------------- context variables ------------------------- *)
\* getcluster(): None on LookupError
getcluster == IF ctxCluster.set THEN ctxCluster.val ELSE None

\* getdiagram() raises EnvironmentError on LookupError
getdiagramRaises == ~ctxDiagram.set

ContextValue(v) == [set |-> TRUE, val |-> v]

\* What the program sees of a call: the operation, the exception raised
\* ("none" when it returns), its arguments and the value it returns
Result(op, err) == [op |-> op, err |-> err, args |-> <<>>, ret |-> <<>>]

Depth(r) == IF IsDiagram(r) THEN diagrams[0 - r].depth ELSE objs[r].depth

Idle == pc.at = "idle"

Init ==
    /\ ctxDiagram = [set |-> FALSE, val |-> None]
    /\ ctxCluster = [set |-> FALSE, val |-> None]
    /\ diagrams = <<>>
    /\ objs = <<>>
    /\ stack = <<>>
    /\ pc = [at |-> "idle", d |-> None, i |-> 0]
    /\ connects = <<>>
    /\ last = Result("none", "none")
    /\ edgeobjs = <<>>
    /\ ptrBefore = <<>>

(* ------------------------------ Diagram -------------------------------- *)
\* The first check of Diagram.__init__ that fails, "none" when all pass.
DiagramInitError(direction, curvestyle, outformat) ==
    IF ~_validate_direction(direction) THEN "ValueError:direction"
    ELSE IF ~_validate_curvestyle(curvestyle) THEN "ValueError:curvestyle"
    ELSE IF \E i \in 1..Len(outformat.f) : ~_validate_outformat(outformat.f[i])
         THEN "ValueError:outformat"
    ELSE "none"

DiagramInit(direction, curvestyle, outformat) ==
    /\ Idle
    /\ \A i \in 1..Len(diagrams) : diagrams[i].st # "init"
    /\ LET err == DiagramInitError(direction, curvestyle, outformat)
       IN  /\ last' = [op |-> "Diagram.__init__", err |-> err,
                    args |-> <<direction, curvestyle, outformat>>,
                    ret |-> <<>>]
           /\ diagrams' =
                IF err # "none" THEN diagrams
                ELSE Append(diagrams,
                        [st |-> "init", edges |-> <<>>, body |-> <<>>,
                         depth |-> 0, rankdir |-> direction,
                         splines |-> curvestyle, outformat |-> outformat,
                         renders |-> <<>>, file |-> "none"])
    /\ UNCHANGED <<ctxDiagram, ctxCluster, objs, stack, pc, connects,
                   edgeobjs, ptrBefore>>

\* Diagram.__enter__; diagrams are opened one after another, outermost
DiagramEnter(i) ==
    /\ Idle
    /\ i \in 1..Len(diagrams)
    /\ diagrams[i].st = "init"
    /\ stack = <<>>
    /\ ctxDiagram' = ContextValue(DiagramRef(i))
    /\ diagrams' = [diagrams EXCEPT ![i].st = "open"]
    /\ stack' = Append(stack, DiagramRef(i))
    /\ ptrBefore' = Append(ptrBefore, ctxCluster)
    /\ last' = Result("Diagram.__enter__", "none")
    /\ UNCHANGED <<ctxCluster, objs, pc, connects, edgeobjs>>

\* next(node.nodes_iter, None): the first Node the generator yields.  The
\* members of subgraphs are graphviz handles, which have no nodes_iter.
nodes_iter_next(r) ==
    IF Len(objs[r].nodes) > 0
    THEN [err |-> "none", val |-> objs[r].nodes[1].node]
    ELSE IF Len(objs[r].subgraphs) > 0
         THEN [err |-> "AttributeError", val |-> None]
         ELSE [err |-> "none", val |-> None]

\* list(g.nodes_iter) for the Cluster or Node r: the Nodes of self.nodes in
\* insertion order, then the first handle of self.subgraphs fails
nodes_iter(r) ==
    [val |-> [i \in 1..Len(objs[r].nodes) |-> objs[r].nodes[i].node],
     err |-> IF Len(objs[r].subgraphs) > 0 THEN "AttributeError" ELSE "none"]

\* The loop of Diagram.__exit__ over self.edges.items(), from entry i on
RECURSIVE CommitEdges(_, _, _)
CommitEdges(body, edges, i) ==
    IF i > Len(edges) THEN [body |-> body, err |-> "none"]
    ELSE
      LET en == edges[i]
          c1 == nodes_iter_next(en.node1)
          c2 == nodes_iter_next(en.node2)
          e1 == IF c1.val # None
                THEN [en.edge EXCEPT !._attrs.ltail = objs[en.node1].id]
                ELSE en.edge
          n1 == IF c1.val # None THEN c1.val ELSE en.node1
          e2 == IF c2.val # None
                THEN [e1 EXCEPT !._attrs.lhead = objs[en.node2].id] ELSE e1
          n2 == IF c2.val # None THEN c2.val ELSE en.node2
      IN  IF c1.err # "none" THEN [body |-> body, err |-> c1.err]
          ELSE IF c2.err # "none" THEN [body |-> body, err |-> c2.err]
          ELSE CommitEdges(
                  Append(body, EdgeLine(objs[n1].id, objs[n2].id, EdgeAttrs(e2))),
                  edges, i + 1)

\* Diagram.connect(node, node2, edge), on the Diagram record d
Diagram_connect(d, node, node2, edge) ==
    [d EXCEPT !.body =
        Append(@, EdgeLine(objs[node].id, objs[node2].id, EdgeAttrs(edge)))]

\* Diagram.__exit__ up to the call of render
DiagramExit(i) ==
    /\ Idle
    /\ stack # <<>>
    /\ stack[Len(stack)] = DiagramRef(i)
    /\ ctxDiagram' = ContextValue(None)
    /\ LET r == CommitEdges(diagrams[i].body, diagrams[i].edges, 1)
       IN  IF r.err # "none"
           THEN /\ diagrams' = [diagrams EXCEPT ![i].body = r.body,
                                                ![i].st = "closed"]
                /\ stack' = SubSeq(stack, 1, Len(stack) - 1)
                /\ ptrBefore' = SubSeq(ptrBefore, 1, Len(stack) - 1)
                /\ pc' = pc
                /\ last' = Result("Diagram.__exit__", r.err)
           ELSE /\ diagrams' = [diagrams EXCEPT ![i].body = r.body,
                                                ![i].st = "exiting"]
                /\ stack' = stack
                /\ ptrBefore' = ptrBefore
                /\ pc' = [at |-> "render", d |-> DiagramRef(i), i |-> 0]
                /\ last' = Result("Diagram.__exit__", "none")
    /\ UNCHANGED <<ctxCluster, objs, connects, edgeobjs>>

\* A Diagram.render that stops after the first format of a list
RenderCallsOnce(d) ==
    IF d.outformat.list /\ Len(d.outformat.f) = 0 THEN 0 ELSE 1

\* The number of calls of self.dot.render that Diagram.render makes
RenderCalls(d) == IF d.outformat.list THEN Len(d.outformat.f) ELSE 1

\* Diagram.render: one call of self.dot.render; it writes the source file
RenderStep ==
    /\ pc.at = "render"
    /\ LET i == 0 - pc.d
           d == diagrams[i]
       IN  /\ pc.i < RenderCalls(d)
           /\ diagrams' =
                [diagrams EXCEPT
                   ![i].renders = Append(@, [format |-> d.outformat.f[pc.i + 1],
                                             body |-> d.body]),
                   ![i].file = "written"]
    /\ pc' = [pc EXCEPT !.i = @ + 1]
    /\ last' = Result("Diagram.render", "none")
    /\ UNCHANGED <<ctxDiagram, ctxCluster, objs, stack, connects,
                   edgeobjs, ptrBefore>>

\* The end of Diagram.__exit__: os.remove(self.filename), setdiagram(None)
RemoveFile ==
    /\ pc.at = "render"
    /\ LET i == 0 - pc.d
           d == diagrams[i]
       IN  /\ pc.i = RenderCalls(d)
           /\ IF d.file = "written"
              THEN /\ diagrams' = [diagrams EXCEPT ![i].file = "removed",
                                                   ![i].st = "closed"]
                   /\ last' = Result("Diagram.__exit__", "none")
              ELSE /\ diagrams' = [diagrams EXCEPT ![i].st = "closed"]
                   /\ last' = Result("Diagram.__exit__", "FileNotFoundError")
    /\ ctxDiagram' = ContextValue(None)
    /\ stack' = SubSeq(stack, 1, Len(stack) - 1)
    /\ ptrBefore' = SubSeq(ptrBefore, 1, Len(stack) - 1)
    /\ pc' = [at |-> "idle", d |-> None, i |-> 0]
    /\ UNCHANGED <<ctxCluster, objs, connects, edgeobjs>>

(* -------------------------- Cluster and Node --------------------------- *)
\* self._parent = getcluster() or getdiagram(), None on EnvironmentError
ParentNow ==
    IF getcluster # None THEN getcluster
    ELSE IF getdiagramRaises THEN None
    ELSE ctxDiagram.val

\* A colour index that stays on the last colour instead of wrapping around
ColorIdxNoWrap(depth) ==
    IF depth < Len(bgcolors) THEN depth + 1 ELSE Len(bgcolors)

\* coloridx = self.depth % len(self.bgcolors), as an index from 1
ColorIdx(depth) == (depth % Len(bgcolors)) + 1

\* Cluster.__init__ of a Cluster or of a Node, after the direction check
NewObj(kind, label, id, direction, parent, diagram) ==
    LET depth == IF parent # None THEN Depth(parent) + 1 ELSE 0
    IN  [kind |-> kind, st |-> "init", label |-> label, id |-> id,
         parent |-> parent, diagram |-> diagram, depth |-> depth,
         bg |-> ColorIdx(depth), rankdir |-> direction, glabel |-> label,
         name |-> <<"cluster_">> \o label, nodes |-> <<>>,
         subgraphs |-> <<>>, body |-> <<>>]

\* self.nodes[key] = node on an insertion-ordered dict
DictSet(nodes, key, node) ==
    IF \E i \in 1..Len(nodes) : nodes[i].key = key
    THEN [i \in 1..Len(nodes) |->
             IF nodes[i].key = key THEN [key |-> key, node |-> node]
             ELSE nodes[i]]
    ELSE Append(nodes, [key |-> key, node |-> node])

HasKey(nodes, key) == \E i \in 1..Len(nodes) : nodes[i].key = key

\* del self.nodes[key]
DictDel(nodes, key) ==
    LET i == CHOOSE j \in 1..Len(nodes) : nodes[j].key = key
    IN  SubSeq(nodes, 1, i - 1) \o SubSeq(nodes, i + 1, Len(nodes))

\* Cluster.node(node) on the Cluster or Node record o
Cluster_node(o, ref, id, label) ==
    [o EXCEPT !.nodes = DictSet(@, id, ref),
              !.body = Append(@, NodeLine(id, label))]

\* Context.node(node) on the Diagram record d
Context_node(d, id, label) == [d EXCEPT !.body = Append(@, NodeLine(id, label))]

\* Cluster.remove_node(node) on the Cluster or Node record o
Cluster_remove_node(o, id) ==
    [o EXCEPT !.nodes = DictDel(@, id),
              !.body = Context_remove_node(@, id)]

\* Cluster.subgraph(subgraph) on the record o, for the handle of object ref
Cluster_subgraph(o, ref, sub) ==
    [o EXCEPT !.subgraphs = Append(@, ref),
              !.body = @ \o SubgraphLines(sub)]

\* Diagram.subgraph(dot) on the Diagram record d
Diagram_subgraph(d, sub) == [d EXCEPT !.body = @ \o SubgraphLines(sub)]

\* A Node.__exit__ that keeps the identity
BoundaryIdKept(id) == id

\* The identity Node.__exit__ gives a container
BoundaryId(id) == <<"cluster_">> \o id

NumClusters == Cardinality({j \in 1..Len(objs) : objs[j].kind = "Cluster"})

\* A Node.__init__ without the check of l.379
DiagramIsNoneSkipped(v) == FALSE

\* if self._diagram is None: raise EnvironmentError
DiagramIsNone(v) == v = None

\* Cluster(label, direction)
ClusterInit(label, direction) ==
    /\ Idle
    /\ IF ~_validate_direction(direction)
       THEN /\ objs' = objs
            /\ last' = Result("Cluster.__init__", "ValueError:direction")
       ELSE /\ objs' = Append(objs, NewObj("Cluster", label, <<>>, direction,
                                           ParentNow, None))
            /\ last' = Result("Cluster.__init__", "none")
    /\ UNCHANGED <<ctxDiagram, ctxCluster, diagrams, stack, pc, connects,
                   edgeobjs, ptrBefore>>

\* Node(label, nodeid=nodeid); <<>> stands for no nodeid
NodeInit(label, nodeid) ==
    /\ Idle
    /\ LET ref == Len(objs) + 1
           id == IF nodeid # <<>> THEN nodeid ELSE _rand_id(ref)
           new == NewObj("Node", label, id, <<"L","R">>, ParentNow,
                         ctxDiagram.val)
       IN  IF getdiagramRaises \/ DiagramIsNone(ctxDiagram.val)
                 \/ ParentNow = None
           THEN /\ last' = Result("Node.__init__", "EnvironmentError")
                /\ UNCHANGED <<objs, diagrams>>
           ELSE /\ last' = Result("Node.__init__", "none")
                /\ IF IsDiagram(ParentNow)
                   THEN /\ diagrams' = [diagrams EXCEPT ![0 - ParentNow] =
                                           Context_node(@, id, label)]
                        /\ objs' = Append(objs, new)
                   ELSE /\ diagrams' = diagrams
                        /\ objs' = Append([objs EXCEPT ![ParentNow] =
                                              Cluster_node(@, ref, id, label)],
                                          new)
    /\ UNCHANGED <<ctxDiagram, ctxCluster, stack, pc, connects,
                   edgeobjs, ptrBefore>>

\* with cluster: Cluster.__enter__ of a Cluster
ClusterEnter(j) ==
    /\ Idle
    /\ j \in 1..Len(objs)
    /\ objs[j].kind = "Cluster"
    /\ objs[j].st = "init"
    /\ stack # <<>>
    /\ ctxCluster' = ContextValue(j)
    /\ objs' = [objs EXCEPT ![j].st = "open"]
    /\ stack' = Append(stack, j)
    /\ ptrBefore' = Append(ptrBefore, ctxCluster)
    /\ last' = Result("Cluster.__enter__", "none")
    /\ UNCHANGED <<ctxDiagram, diagrams, pc, connects, edgeobjs>>

\* with node: Node._before_enter, Cluster.__enter__ and Node.__enter__
NodeEnter(j) ==
    /\ Idle
    /\ j \in 1..Len(objs)
    /\ objs[j].kind = "Node"
    /\ objs[j].st = "init"
    /\ stack # <<>>
    /\ LET n == objs[j]
           p == n.parent
           entered == [n EXCEPT !.st = "open", !.rankdir = <<"T","B">>,
                                !.depth = Depth(p) + 1,
                                !.bg = ColorIdx(Depth(p) + 1)]
       IN  IF IsObj(p) /\ ~HasKey(objs[p].nodes, n.id)
           THEN /\ last' = Result("Node.__enter__", "KeyError")
                /\ UNCHANGED <<ctxCluster, objs, diagrams, stack, ptrBefore>>
           ELSE /\ last' = Result("Node.__enter__", "none")
                /\ ctxCluster' = ContextValue(j)
                /\ stack' = Append(stack, j)
                /\ ptrBefore' = Append(ptrBefore, ctxCluster)
                /\ IF IsDiagram(p)
                   THEN /\ diagrams' = [diagrams EXCEPT ![0 - p].body =
                                           Context_remove_node(@, n.id)]
                        /\ objs' = [objs EXCEPT ![j] = entered]
                   ELSE /\ diagrams' = diagrams
                        /\ objs' = [objs EXCEPT
                                      ![p] = Cluster_remove_node(@, n.id),
                                      ![j] = entered]
    /\ UNCHANGED <<ctxDiagram, pc, connects, edgeobjs>>

\* The lines Cluster.__exit__ appends to its own handle: its nodes again,
\* then each handle of subgraphs as it is now
RECURSIVE OwnNodeLines(_, _)
OwnNodeLines(nodes, i) ==
    IF i > Len(nodes) THEN <<>>
    ELSE << NodeLine(objs[nodes[i].node].id, objs[nodes[i].node].label) >>
         \o OwnNodeLines(nodes, i + 1)

RECURSIVE OwnSubgraphLines(_, _)
OwnSubgraphLines(subs, i) ==
    IF i > Len(subs) THEN <<>>
    ELSE SubgraphLines(objs[subs[i]]) \o OwnSubgraphLines(subs, i + 1)

\* Cluster.__exit__, and for a Node the two assignments of Node.__exit__
Exit(j) ==
    /\ Idle
    /\ stack # <<>>
    /\ stack[Len(stack)] = j
    /\ IsObj(j)
    /\ LET o == objs[j]
           p == o.parent
           grown == [o EXCEPT !.body = @ \o OwnNodeLines(o.nodes, 1)
                                         \o OwnSubgraphLines(o.subgraphs, 1),
                              !.st = "exited"]
           done == IF o.kind = "Node"
                   THEN [grown EXCEPT !.id = BoundaryId(o.id),
                                      !.name = BoundaryId(o.id)]
                   ELSE grown
       IN  /\ IF IsDiagram(p)
              THEN /\ diagrams' = [diagrams EXCEPT ![0 - p] =
                                      Diagram_subgraph(@, o)]
                   /\ objs' = [objs EXCEPT ![j] = done]
              ELSE IF IsObj(p)
              THEN /\ diagrams' = diagrams
                   /\ objs' = [objs EXCEPT ![p] = Cluster_subgraph(@, j, o),
                                           ![j] = done]
              ELSE /\ diagrams' = diagrams
                   /\ objs' = [objs EXCEPT ![j] = done]
           /\ ctxCluster' = ContextValue(p)
           /\ last' = Result(IF o.kind = "Node" THEN "Node.__exit__"
                             ELSE "Cluster.__exit__", "none")
    /\ stack' = SubSeq(stack, 1, Len(stack) - 1)
    /\ ptrBefore' = SubSeq(ptrBefore, 1, Len(stack) - 1)
    /\ UNCHANGED <<ctxDiagram, pc, connects, edgeobjs>>

\* Node.connect(node, edge) on the Node a, with a new Edge
Connect(a, b, in) ==
    /\ Idle
    /\ a \in 1..Len(objs) /\ objs[a].kind = "Node"
    /\ b \in 1..Len(objs) /\ objs[b].kind = "Node"
    /\ IF getdiagramRaises
       THEN /\ last' = Result("Node.connect", "EnvironmentError")
            /\ UNCHANGED <<diagrams, connects>>
       ELSE IF ctxDiagram.val = None
       THEN /\ last' = Result("Node.connect", "AttributeError")
            /\ UNCHANGED <<diagrams, connects>>
       ELSE /\ last' = Result("Node.connect", "none")
            /\ diagrams' = [diagrams EXCEPT ![0 - ctxDiagram.val] =
                               Diagram_connect(@, a, b,
                                   NewEdge(a, in.forward, in.reverse,
                                           in.label, ""))]
            /\ connects' = Append(connects,
                              [d |-> ctxDiagram.val, node |-> a, node2 |-> b,
                               id |-> objs[a].id, id2 |-> objs[b].id,
                               st |-> objs[a].st, st2 |-> objs[b].st,
                               eref |-> None,
                               edge |-> NewEdge(a, in.forward, in.reverse,
                                                in.label, "")])
    /\ UNCHANGED <<ctxDiagram, ctxCluster, objs, stack, pc, edgeobjs,
                   ptrBefore>>

\* list(g.nodes_iter) called by the program on the Cluster or Node j
NodesIter(j) ==
    /\ Idle
    /\ j \in 1..Len(objs)
    /\ last' = [op |-> "Cluster.nodes_iter", err |-> nodes_iter(j).err,
                args |-> <<j>>, ret |-> nodes_iter(j).val]
    /\ UNCHANGED <<ctxDiagram, ctxCluster, diagrams, objs, stack, pc,
                   connects, edgeobjs, ptrBefore>>

(* ---------------------- operators of Node and Edge --------------------- *)
\* The state a chain of connect calls works on, and the exception that
\* ended it ("none" while it runs)
Running == [diagrams |-> diagrams, connects |-> connects,
            edgeobjs |-> edgeobjs, err |-> "none"]

\* Node.connect(node, edge) on the Node a; eref is the Edge object when the
\* program holds it, None for an Edge made by the operator
Node_connect(T, a, b, edge, eref) ==
    IF T.err # "none" THEN T
    ELSE IF getdiagramRaises THEN [T EXCEPT !.err = "EnvironmentError"]
    ELSE IF ctxDiagram.val = None THEN [T EXCEPT !.err = "AttributeError"]
    ELSE [T EXCEPT
            !.diagrams[0 - ctxDiagram.val] = Diagram_connect(@, a, b, edge),
            !.connects = Append(@,
                [d |-> ctxDiagram.val, node |-> a, node2 |-> b,
                 id |-> objs[a].id, id2 |-> objs[b].id,
                 st |-> objs[a].st, st2 |-> objs[b].st,
                 eref |-> eref, edge |-> edge])]

\* An Edge.connect that adopts the Node whether or not it has a source
Edge_connect_adopt(T, e, target) ==
    IF T.err # "none" THEN T ELSE [T EXCEPT !.edgeobjs[e].node = target]

\* Edge.connect(other) with a Node: the last branch
Edge_connect_node(T, e, target) ==
    IF T.err # "none" THEN T
    ELSE IF T.edgeobjs[e].node # None
    THEN Node_connect(T, T.edgeobjs[e].node, target, T.edgeobjs[e], e)
    ELSE [T EXCEPT !.edgeobjs[e].node = target]

\* Edge.connect(other) with a list: self.node.connect(node, self) for each
RECURSIVE Edge_connect_list(_, _, _, _)
Edge_connect_list(T, e, other, i) ==
    IF i > Len(other) \/ T.err # "none" THEN T
    ELSE IF T.edgeobjs[e].node = None
    THEN [T EXCEPT !.err = "AttributeError"]
    ELSE Edge_connect_list(
            Node_connect(T, T.edgeobjs[e].node, other[i], T.edgeobjs[e], e),
            e, other, i + 1)

\* An operand is [t, v]: a Node <<j>>, an Edge <<e>> or a list of Nodes
IsList(other) == other.t = "list"
IsNode(other) == other.t = "node"

\* The value a call returns: <<>> for None, else the kind and the object
Ret(kind, v) == <<kind, v>>

\* A forward flag that only the left form sets
OpForwardLeft(op) == op \in {"Node.__rshift__"}

\* The flags of the Edge each operator makes or sets
OpForward(op) == op \in {"Node.__rshift__", "Node.__rrshift__"}
OpReverse(op) == op \in {"Node.__lshift__", "Node.__rlshift__"}

\* for node in other: self.connect(node, Edge(self, ...))
RECURSIVE ConnectEach(_, _, _, _, _)
ConnectEach(T, op, n, other, i) ==
    IF i > Len(other) \/ T.err # "none" THEN T
    ELSE ConnectEach(
            Node_connect(T, n, other[i],
                NewEdge(n, OpForward(op), OpReverse(op), <<>>, ""), None),
            op, n, other, i + 1)

\* for o in other of the reflected operators; an element is [t, v] with
\* t "node" or "edge" and v the reference
RECURSIVE ConnectFromEach(_, _, _, _, _)
ConnectFromEach(T, op, n, other, i) ==
    IF i > Len(other) \/ T.err # "none" THEN T
    ELSE
      LET o == other[i]
          flagged == [T EXCEPT
                        !.edgeobjs[o.v].forward = OpForward(op) \/ @,
                        !.edgeobjs[o.v].reverse = OpReverse(op) \/ @]
      IN  ConnectFromEach(
              IF o.t = "edge" THEN Edge_connect_node(flagged, o.v, n)
              ELSE Node_connect(T, o.v, n,
                      NewEdge(n, OpForward(op), OpReverse(op), <<>>, ""),
                      None),
              op, n, other, i + 1)

\* The end of an operator: what the chain left, and the call's result
Finish(T, op, args, ret) ==
    /\ diagrams' = T.diagrams
    /\ connects' = T.connects
    /\ edgeobjs' = T.edgeobjs
    /\ last' = [op |-> op, err |-> T.err, args |-> args,
                ret |-> IF T.err = "none" THEN ret ELSE <<>>]
    /\ UNCHANGED <<ctxDiagram, ctxCluster, objs, stack, pc, ptrBefore>>

\* Edge(forward=forward, reverse=reverse, dir=dir), held by the program
EdgeInit(forward, reverse, dir) ==
    /\ Idle
    /\ edgeobjs' = Append(edgeobjs, NewEdge(None, forward, reverse, <<>>, dir))
    /\ last' = Result("Edge.__init__", "none")
    /\ UNCHANGED <<ctxDiagram, ctxCluster, diagrams, objs, stack, pc,
                   connects, ptrBefore>>

\* n - other, n >> other, n << other: Node.__sub__, __rshift__, __lshift__
NodeOp(op, n, other) ==
    /\ Idle
    /\ op \in {"Node.__sub__", "Node.__rshift__", "Node.__lshift__"}
    /\ IF IsList(other)
       THEN Finish(ConnectEach(Running, op, n, other.v, 1), op,
                   <<n, other>>, Ret("list", other.v))
       ELSE IF IsNode(other)
       THEN Finish(Node_connect(Running, n, other.v[1],
                       NewEdge(n, OpForward(op), OpReverse(op), <<>>, ""),
                       None),
                   op, <<n, other>>, Ret("node", other.v[1]))
       ELSE LET e == other.v[1]
                flagged == [Running EXCEPT
                              !.edgeobjs[e].forward = OpForward(op) \/ @,
                              !.edgeobjs[e].reverse = OpReverse(op) \/ @]
            IN  IF op = "Node.__lshift__"
                THEN Finish(Edge_connect_node(flagged, e, n), op,
                            <<n, other>>,
                            IF edgeobjs[e].node # None THEN Ret("node", n)
                            ELSE Ret("edge", e))
                ELSE Finish([flagged EXCEPT !.edgeobjs[e].node = n], op,
                            <<n, other>>, Ret("edge", e))

\* other - n, other >> n, other << n with a list on the left:
\* Node.__rsub__, __rrshift__, __rlshift__
NodeROp(op, n, other) ==
    /\ Idle
    /\ op \in {"Node.__rsub__", "Node.__rrshift__", "Node.__rlshift__"}
    /\ Finish(ConnectFromEach(Running, op, n, other, 1), op, <<n, other>>,
              Ret("node", n))

\* edge.connect(other)
EdgeConnect(e, other) ==
    /\ Idle
    /\ IF IsList(other)
       THEN Finish(Edge_connect_list(Running, e, other.v, 1), "Edge.connect",
                   <<e, other>>, Ret("list", other.v))
       ELSE IF IsNode(other)
       THEN Finish(Edge_connect_node(Running, e, other.v[1]), "Edge.connect",
                   <<e, other>>,
                   IF edgeobjs[e].node # None THEN Ret("node", other.v[1])
                   ELSE Ret("edge", e))
       ELSE Finish([Running EXCEPT !.edgeobjs[e]._attrs =
                                      edgeobjs[other.v[1]]._attrs],
                   "Edge.connect", <<e, other>>, Ret("edge", e))

\* The loop of Edge.append from element i on.  A is [edgeobjs, result]; an
\* entry of result is the Edge object (None for an Edge made by the call)
\* and the Edge as the call leaves it.  forward if forward else o.forward
RECURSIVE Edge_append(_, _, _, _, _, _)
Edge_append(A, e, other, i, forward, reverse) ==
    IF i > Len(other) THEN A
    ELSE
      LET o == other[i]
          set == [A.edgeobjs EXCEPT
                    ![o.v].forward = IF forward THEN forward ELSE @,
                    ![o.v].reverse = IF forward THEN forward ELSE @]
          copied == [set EXCEPT ![e]._attrs = EdgeAttrs(set[o.v])]
          made == [node |-> o.v, forward |-> forward, reverse |-> reverse,
                   _attrs |-> A.edgeobjs[e]._attrs]
      IN  Edge_append(
              IF o.t = "edge"
              THEN [edgeobjs |-> copied,
                    result |-> Append(A.result,
                                  [ref |-> o.v, edge |-> copied[o.v]])]
              ELSE [edgeobjs |-> A.edgeobjs,
                    result |-> Append(A.result,
                                  [ref |-> None, edge |-> made])],
              e, other, i + 1, forward, reverse)

\* edge.append(other, forward, reverse); other - edge, other >> edge and
\* other << edge with a list on the left call it
EdgeAppend(e, other, forward, reverse) ==
    /\ Idle
    /\ LET A == Edge_append([edgeobjs |-> edgeobjs, result |-> <<>>],
                            e, other, 1, forward, reverse)
       IN  /\ edgeobjs' = A.edgeobjs
           /\ last' = [op |-> "Edge.append", err |-> "none",
                       args |-> <<e, other, forward, reverse>>,
                       ret |-> A.result]
    /\ UNCHANGED <<ctxDiagram, ctxCluster, diagrams, objs, stack, pc,
                   connects, ptrBefore>>

(* --------------------------- the programs ----------------------------- *)
\* How much a program of the model does.
CanConstruct(maxObjs, maxOps) ==
    Len(objs) < maxObjs /\ Len(objs) + Len(connects) < maxOps

\* A caller gives no two Nodes the same nodeid.
FreshId(nodeid) == \A j \in 1..Len(objs) : objs[j].id # nodeid

CanConnect(maxConnects, maxOps) ==
    Len(connects) < maxConnects /\ Len(objs) + Len(connects) < maxOps

\* Spec: one diagram, built inside its with-statement.
Next ==
    \/ /\ Len(diagrams) < 1
       /\ stack = <<>>
       /\ DiagramInit(<<"L","R">>, <<"o","r","t","h","o">>,
                      [list |-> FALSE, f |-> << <<"p","n","g">> >>])
    \/ \E i \in 1..MaxDiagrams : DiagramEnter(i)
    \/ \E i \in 1..MaxDiagrams : DiagramExit(i)
    \/ RenderStep
    \/ RemoveFile
    \/ /\ CanConstruct(MaxObjs, MaxOps)
       /\ NumClusters < MaxClusters
       /\ stack # <<>>
       /\ \E label \in LabelInputs, direction \in ClusterDirectionInputs :
             ClusterInit(label, direction)
    \/ /\ CanConstruct(MaxObjs, MaxOps)
       /\ stack # <<>>
       /\ \E label \in LabelInputs, nodeid \in NodeidInputs :
             FreshId(nodeid) /\ NodeInit(label, nodeid)
    \/ \E j \in 1..Len(objs) : ClusterEnter(j)
    \/ \E j \in 1..Len(objs) : NodeEnter(j)
    \/ \E j \in 1..Len(objs) : Exit(j)
    \/ /\ CanConnect(MaxConnects, MaxOps)
       /\ stack # <<>>
       /\ \E a \in 1..Len(objs), b \in 1..Len(objs), in \in EdgeInputs :
             Connect(a, b, in)

Spec == Init /\ [][Next]_vars

\* SpecScopes: diagrams one after another, with Clusters and Nodes (of
\* generated identity) constructed inside, between and outside them, and
\* the walk over a grouping's Nodes.
NextScopes ==
    \/ /\ Len(diagrams) < MaxDiagrams
       /\ stack = <<>>
       /\ DiagramInit(<<"L","R">>, <<"o","r","t","h","o">>,
                      [list |-> FALSE, f |-> << <<"p","n","g">> >>])
    \/ \E i \in 1..Len(diagrams) : DiagramEnter(i)
    \/ \E i \in 1..Len(diagrams) : DiagramExit(i)
    \/ RenderStep
    \/ RemoveFile
    \/ /\ Len(objs) < MaxObjs
       /\ NumClusters < MaxScopeClusters
       /\ \E label \in LabelInputs, direction \in ClusterDirectionInputs :
             ClusterInit(label, direction)
    \/ /\ Len(objs) < MaxObjs
       /\ \E label \in LabelInputs : NodeInit(label, <<>>)
    \/ \E j \in 1..Len(objs) : ClusterEnter(j)
    \/ \E j \in 1..Len(objs) : NodeEnter(j)
    \/ \E j \in 1..Len(objs) : Exit(j)
    \/ \E j \in 1..Len(objs) : NodesIter(j)

SpecScopes == Init /\ [][NextScopes]_vars

\* SpecConfig: the arguments of Diagram(...), and the scope exit of a
\* diagram that holds Nodes and a connection.
NextConfig ==
    \/ /\ Len(diagrams) = 0
       /\ \E direction \in ConfigDirections, curvestyle \in ConfigCurves,
             outformat \in ConfigFormats :
             DiagramInit(direction, curvestyle, outformat)
    \/ /\ Len(diagrams) \in 1..(MaxDiagrams - 1)
       /\ \E direction \in DirectionInputs :
             DiagramInit(direction, <<"o","r","t","h","o">>,
                         [list |-> FALSE, f |-> << <<"p","n","g">> >>])
    \/ \E i \in 1..Len(diagrams) : DiagramEnter(i)
    \/ \E i \in 1..Len(diagrams) : DiagramExit(i)
    \/ RenderStep
    \/ RemoveFile
    \/ /\ Len(objs) < MaxConfigObjs
       /\ stack # <<>>
       /\ \E label \in LabelInputs : NodeInit(label, <<>>)
    \/ \E j \in 1..Len(objs) : NodeEnter(j)
    \/ \E j \in 1..Len(objs) : Exit(j)
    \/ /\ Len(connects) < MaxConfigConnects
       /\ stack # <<>>
       /\ \E a \in 1..Len(objs), b \in 1..Len(objs) :
             Connect(a, b, [forward |-> TRUE, reverse |-> FALSE,
                            label |-> <<>>])

SpecConfig == Init /\ [][NextConfig]_vars

\* SpecNest: one diagram with Clusters and Nodes of generated identity
\* nested up to five deep; each is entered before the next is constructed.
NoPending == \A j \in 1..Len(objs) : objs[j].st # "init"

NextNest ==
    \/ /\ Len(diagrams) < 1
       /\ DiagramInit(<<"L","R">>, <<"o","r","t","h","o">>,
                      [list |-> FALSE, f |-> << <<"p","n","g">> >>])
    \/ \E i \in 1..Len(diagrams) : DiagramEnter(i)
    \/ \E i \in 1..Len(diagrams) : DiagramExit(i)
    \/ RenderStep
    \/ RemoveFile
    \/ /\ Len(objs) < MaxNestObjs
       /\ stack # <<>>
       /\ NoPending
       /\ \E label \in LabelInputs, direction \in ClusterDirectionInputs :
             ClusterInit(label, direction)
    \/ /\ Len(objs) < MaxNestObjs
       /\ stack # <<>>
       /\ NoPending
       /\ \E label \in LabelInputs : NodeInit(label, <<>>)
    \/ \E j \in 1..Len(objs) : ClusterEnter(j)
    \/ \E j \in 1..Len(objs) : NodeEnter(j)
    \/ \E j \in 1..Len(objs) : Exit(j)

SpecNest == Init /\ [][NextNest]_vars

\* SpecEdge: one diagram with leaf Nodes, Edge objects, and the operators
\* between Nodes, Edges and lists of them.
NodeRefs == {j \in 1..Len(objs) : objs[j].kind = "Node"}
EdgeRefs == 1..Len(edgeobjs)
ListsOf(S) == UNION {[1..k -> S] : k \in 0..MaxList}
Operands ==
    {[t |-> "node", v |-> <<j>>] : j \in NodeRefs}
    \cup {[t |-> "edge", v |-> <<e>>] : e \in EdgeRefs}
    \cup {[t |-> "list", v |-> l] : l \in ListsOf(NodeRefs)}
Elements ==
    {[t |-> "node", v |-> j] : j \in NodeRefs}
    \cup {[t |-> "edge", v |-> e] : e \in EdgeRefs}

\* The Edge objects a program makes: plain, and reversed with a dir of its own
EdgeObjInputs ==
    { [forward |-> FALSE, reverse |-> FALSE, dir |-> ""],
      [forward |-> FALSE, reverse |-> TRUE,  dir |-> "both"] }

\* The operation stays within the connections a program of the model makes
Fits(other) ==
    Len(connects) + (IF IsList(other) THEN Len(other.v) ELSE 1)
        <= MaxEdgeConnects

NextEdge ==
    \/ /\ Len(diagrams) < 1
       /\ DiagramInit(<<"L","R">>, <<"o","r","t","h","o">>,
                      [list |-> FALSE, f |-> << <<"p","n","g">> >>])
    \/ \E i \in 1..Len(diagrams) : DiagramEnter(i)
    \/ \E i \in 1..Len(diagrams) : DiagramExit(i)
    \/ RenderStep
    \/ RemoveFile
    \/ /\ Len(objs) < MaxEdgeNodes
       /\ stack # <<>>
       /\ \E label \in LabelInputs : NodeInit(label, <<>>)
    \/ /\ Len(edgeobjs) < MaxEdges
       /\ \E in \in EdgeObjInputs : EdgeInit(in.forward, in.reverse, in.dir)
    \/ \E op \in {"Node.__sub__", "Node.__rshift__", "Node.__lshift__"},
          n \in NodeRefs, other \in Operands :
          Fits(other) /\ NodeOp(op, n, other)
    \/ \E op \in {"Node.__rsub__", "Node.__rrshift__", "Node.__rlshift__"},
          n \in NodeRefs, other \in ListsOf(Elements) :
          Len(connects) + Len(other) <= MaxEdgeConnects
          /\ NodeROp(op, n, other)
    \/ \E e \in EdgeRefs, other \in Operands :
          Fits(other) /\ EdgeConnect(e, other)

SpecEdge == Init /\ [][NextEdge]_vars

\* SpecAppend: one diagram with leaf Nodes, Edge objects, and Edge.append
\* on lists of Nodes and of other Edges.
NextAppend ==
    \/ /\ Len(diagrams) < 1
       /\ DiagramInit(<<"L","R">>, <<"o","r","t","h","o">>,
                      [list |-> FALSE, f |-> << <<"p","n","g">> >>])
    \/ \E i \in 1..Len(diagrams) : DiagramEnter(i)
    \/ \E i \in 1..Len(diagrams) : DiagramExit(i)
    \/ RenderStep
    \/ RemoveFile
    \/ /\ Len(objs) < MaxAppendNodes
       /\ stack # <<>>
       /\ \E label \in LabelInputs : NodeInit(label, <<>>)
    \/ /\ Len(edgeobjs) < MaxAppendEdges
       /\ \E in \in EdgeObjInputs : EdgeInit(in.forward, in.reverse, in.dir)
    \/ \E e \in EdgeRefs, other \in ListsOf(Elements),
          forward \in BOOLEAN, reverse \in BOOLEAN :
          /\ \A i \in 1..Len(other) : other[i] # [t |-> "edge", v |-> e]
          /\ EdgeAppend(e, other, forward, reverse)

SpecAppend == Init /\ [][NextAppend]_vars

(* ------------------------------ the claims ----------------------------- *)
Closed(i) == diagrams[i].st = "closed" /\ diagrams[i].file = "removed"

EdgeIdx(body) == {k \in 1..Len(body) : body[k].k = "edge"}

\* The connections registered on the i-th diagram, by position in connects
ConnectsOf(i) == {n \in 1..Len(connects) : connects[n].d = DiagramRef(i)}

\* A Node that was entered as a container and holds at least one member
IsContainer(j) == objs[j].st = "exited" /\ Len(objs[j].nodes) > 0

\* The endpoint the layout engine draws an edge line to: the hint when set
EffTail(l) == IF l.lt # <<>> THEN l.lt ELSE l.a
EffHead(l) == IF l.lh # <<>> THEN l.lh ELSE l.b

\* A line that can stand for the connection c: each endpoint is named by an
\* identity its node has or had, as the endpoint itself or as the hint
LineOf(l, c) ==
    /\ l.k = "edge"
    /\ \/ l.a \in {c.id, objs[c.node].id}
       \/ l.lt = objs[c.node].id
    /\ \/ l.b \in {c.id2, objs[c.node2].id}
       \/ l.lh = objs[c.node2].id

\* C1: at diagram close, a connection with a container Node (entered as a
\* nested scope, holding a member) as source or target is committed as an
\* edge whose effective endpoint there is the container's boundary identity,
\* whether it was registered before the Node was entered or after it exited.
C1_ContainerEndpointIsBoundary ==
    \A i \in 1..Len(diagrams) : Closed(i) =>
      \A n \in ConnectsOf(i) :
        LET c == connects[n]
        IN  ((IsContainer(c.node) \/ IsContainer(c.node2))
             /\ c.st # "open" /\ c.st2 # "open") =>
              \E k \in EdgeIdx(diagrams[i].body) :
                LET l == diagrams[i].body[k]
                IN  /\ LineOf(l, c)
                    /\ IsContainer(c.node) => EffTail(l) = objs[c.node].id
                    /\ IsContainer(c.node2) => EffHead(l) = objs[c.node2].id

\* The connection n is the only one registered with its two identities
OnlyOnce(n) ==
    \A m \in 1..Len(connects) :
        (connects[m].id = connects[n].id /\ connects[m].id2 = connects[n].id2)
            => m = n

\* C2: at diagram close, a connection between two Nodes that are never
\* entered as containers is exactly one edge line, from the source's own
\* identity to the target's own identity, without ltail or lhead and with
\* the direction of the edge's flags.
C2_LeafEdgeCommittedOnce ==
    \A i \in 1..Len(diagrams) : Closed(i) =>
      \A n \in ConnectsOf(i) :
        LET c == connects[n]
        IN  (objs[c.node].st = "init" /\ objs[c.node2].st = "init" /\ OnlyOnce(n))
            => Cardinality({k \in EdgeIdx(diagrams[i].body) :
                   LET l == diagrams[i].body[k]
                   IN  /\ l.a = objs[c.node].id /\ l.b = objs[c.node2].id
                       /\ l.lt = <<>> /\ l.lh = <<>>
                       /\ l.dir = EdgeAttrs(c.edge).dir}) = 1

\* C3: a call of Diagram.connect records the edge in the deferred edge map
\* under (a, b) and leaves the body of the diagram's graph as it was.
C3_ConnectOnlyRecords ==
    [][Len(connects') > Len(connects) =>
        LET c == connects'[Len(connects')]
            i == 0 - c.d
        IN  /\ diagrams'[i].body = diagrams[i].body
            /\ \E k \in 1..Len(diagrams'[i].edges) :
                  /\ diagrams'[i].edges[k].node1 = c.node
                  /\ diagrams'[i].edges[k].node2 = c.node2]_vars

\* The first registration of each distinct (source, target) pair
FirstOfPair(i) ==
    {n \in ConnectsOf(i) :
        \A m \in ConnectsOf(i) :
            (connects[m].node = connects[n].node
             /\ connects[m].node2 = connects[n].node2) => m >= n}

\* C4: when the scope exit of a diagram reaches the render step, every
\* distinct (source, target) pair registered through connect is an edge of
\* the graph, and the edges are in the order of first registration.
C4_EveryPairEmittedInOrder ==
    \A i \in 1..Len(diagrams) :
      (pc.at = "render" /\ pc.d = DiagramRef(i)) =>
        LET body == diagrams[i].body
        IN  /\ \A n \in FirstOfPair(i) :
                 \E k \in EdgeIdx(body) : LineOf(body[k], connects[n])
            /\ \A n, m \in FirstOfPair(i) : n < m =>
                 \E k, h \in EdgeIdx(body) :
                    /\ k < h
                    /\ LineOf(body[k], connects[n])
                    /\ LineOf(body[h], connects[m])

\* C5: when the same ordered pair (a, b) is connected twice with different
\* edge attributes, the graph at diagram close has exactly one edge for
\* (a, b), with the attributes of the second connection.
C5_LastConnectionWins ==
    \A i \in 1..Len(diagrams) : Closed(i) =>
      \A n, m \in ConnectsOf(i) :
        LET c == connects[n]
            e == connects[m]
            for == {k \in EdgeIdx(diagrams[i].body) :
                       LineOf(diagrams[i].body[k], e)}
        IN  (n < m /\ c.node = e.node /\ c.node2 = e.node2 /\ c.edge # e.edge
             /\ \A h \in ConnectsOf(i) :
                   (connects[h].node = e.node /\ connects[h].node2 = e.node2)
                      => h <= m)
            => /\ Cardinality(for) = 1
               /\ \A k \in for :
                     /\ diagrams[i].body[k].c = e.edge._attrs.label
                     /\ diagrams[i].body[k].dir = EdgeAttrs(e.edge).dir

StripPrefix(id) == Tail(id)

\* C6: when a Node that was entered as a container exits its scope, its
\* identity becomes "cluster_" followed by the identity it had on entry and
\* its graph handle gets that name; stripping the prefix gives the identity
\* back, and two Nodes with different identities never get the same
\* boundary identity.
C6_BoundaryIdentity ==
    [][\A j \in 1..Len(objs) :
          (objs[j].kind = "Node" /\ objs[j].st = "open") =>
            /\ objs'[j].st = "open" => objs'[j].id = objs[j].id
            /\ objs'[j].st = "exited" =>
                 /\ objs'[j].id = <<"cluster_">> \o objs[j].id
                 /\ objs'[j].name = objs'[j].id
                 /\ StripPrefix(objs'[j].id) = objs[j].id
                 /\ \A h \in 1..Len(objs) :
                       (h # j /\ objs[h].kind = "Node" /\ objs[h].st = "exited"
                        /\ StripPrefix(objs[h].id) # objs[j].id)
                          => objs'[j].id # objs[h].id]_vars

\* Two container Nodes have exited, with different boundary identities
C6_Witness ==
    \E j, h \in 1..Len(objs) :
        /\ j # h
        /\ objs[j].kind = "Node" /\ objs[j].st = "exited"
        /\ objs[h].kind = "Node" /\ objs[h].st = "exited"
        /\ objs[j].id[1] = "cluster_" /\ objs[h].id[1] = "cluster_"
        /\ objs[j].id # objs[h].id

\* A diagram scope is active: some diagram was entered and has not exited
DiagramScopeActive == \E i \in 1..Len(diagrams) : diagrams[i].st = "open"

\* C7: a Node constructed while no diagram scope is active (none was ever
\* entered, or the last one entered has exited) raises an error and is
\* registered nowhere: no member mapping and no graph body changes, and no
\* Node comes to exist.
C7_NodeNeedsDiagram ==
    [][/\ (~DiagramScopeActive /\ last'.op = "Node.__init__") =>
            /\ last'.err = "EnvironmentError"
            /\ objs' = objs
            /\ diagrams' = diagrams
       /\ (Len(objs') > Len(objs) /\ objs'[Len(objs')].kind = "Node") =>
            DiagramScopeActive]_vars

\* A Node construction failed after a diagram had been entered and exited,
\* with the active-grouping pointer still set
C7_Witness ==
    /\ last.op = "Node.__init__"
    /\ last.err = "EnvironmentError"
    /\ \E i \in 1..Len(diagrams) : diagrams[i].st = "closed"
    /\ ctxCluster.set /\ ctxCluster.val # None

\* C8: a Cluster constructed while neither a diagram scope nor a grouping
\* scope is active raises an error, and no Cluster exists without a parent.
C8_ClusterNeedsScope ==
    [][/\ (stack = <<>> /\ last'.op = "Cluster.__init__") =>
            (last'.err # "none" /\ objs' = objs)
       /\ \A j \in 1..Len(objs') :
            objs'[j].kind = "Cluster" => objs'[j].parent # None]_vars

\* The arguments Diagram(...) accepts, written out
C9_Accepted(args) ==
    /\ upper(args[1]) \in { <<"T","B">>, <<"B","T">>, <<"L","R">>, <<"R","L">> }
    /\ lower(args[2]) \in { <<"o","r","t","h","o">>, <<"c","u","r","v","e","d">> }
    /\ \A k \in 1..Len(args[3].f) :
          lower(args[3].f[k]) \in { <<"p","n","g">>, <<"j","p","g">>,
                                    <<"s","v","g">>, <<"p","d","f">>,
                                    <<"d","o","t">> }

\* C9: Diagram(...) returns a diagram exactly when the direction in upper
\* case is TB, BT, LR or RL, the curve style in lower case is ortho or
\* curved and every output format in lower case is supported; otherwise it
\* raises an error and changes neither context variable, no diagram, no
\* Cluster or Node and no registered connection.
C9_DiagramValidation ==
    [][last'.op = "Diagram.__init__" =>
        /\ (last'.err = "none") <=> C9_Accepted(last'.args)
        /\ last'.err # "none" =>
              UNCHANGED <<ctxDiagram, ctxCluster, diagrams, objs, connects>>
        /\ (last'.err = "none" /\ last' # last) =>
              /\ Len(diagrams') = Len(diagrams) + 1
              /\ diagrams'[Len(diagrams')].outformat = last'.args[3]
              /\ UNCHANGED <<ctxDiagram, ctxCluster, objs, connects>>]_vars

\* Diagram(...) was rejected while a diagram holding a Node was open, and
\* an argument in another case than the enumerated one was accepted
C9_Witness ==
    /\ last.op = "Diagram.__init__"
    /\ last.err = "ValueError:direction"
    /\ \E i \in 1..Len(diagrams) :
          /\ diagrams[i].st = "open"
          /\ diagrams[i].rankdir = <<"b","t">>
          /\ diagrams[i].body # <<>>
    /\ ctxDiagram.val # None

\* The number of output formats a diagram was asked for
C10_Requested(d) == IF d.outformat.list THEN Len(d.outformat.f) ELSE 1

C10_EdgeLines(body) == {body[k] : k \in EdgeIdx(body)}

\* C10: on diagram scope exit the render collaborator is invoked once per
\* requested output format, in list order, each time on the same graph,
\* which is the diagram's graph until the exit ends and holds every edge
\* the diagram ever holds (no edge is committed after an invocation);
\* nothing is rendered before scope exit, and the intermediate file is
\* removed only after the last invocation.
C10_RenderPerFormat ==
    \A i \in 1..Len(diagrams) :
      LET d == diagrams[i]
      IN  /\ Len(d.renders) <= C10_Requested(d)
          /\ \A k \in 1..Len(d.renders) :
                /\ d.renders[k].format = d.outformat.f[k]
                /\ d.renders[k].body = d.renders[1].body
                /\ C10_EdgeLines(d.body) \subseteq C10_EdgeLines(d.renders[k].body)
                /\ d.st = "exiting" => d.renders[k].body = d.body
          /\ d.st \in {"init", "open"} => d.renders = <<>>
          /\ d.st = "closed" => Len(d.renders) = C10_Requested(d)
          /\ d.file = "removed" => Len(d.renders) = C10_Requested(d)
          /\ (pc.at = "render" /\ pc.d = DiagramRef(i)) => pc.i = Len(d.renders)

\* A diagram with a committed edge was rendered in three formats, then its
\* file was removed
C10_Witness ==
    \E i \in 1..Len(diagrams) :
        /\ diagrams[i].file = "removed"
        /\ Len(diagrams[i].renders) = 3
        /\ C10_EdgeLines(diagrams[i].body) # {}

\* The direction of a flag pair, written out
C11_Direction(forward, reverse) ==
    CASE forward /\ reverse   -> "both"
      [] forward /\ ~reverse  -> "forward"
      [] ~forward /\ reverse  -> "back"
      [] OTHER                -> "none"

\* C11: the direction an Edge hands to the graph is "both", "forward",
\* "back" or "none" by its (forward, reverse) flags alone: every edge line a
\* connection writes carries the direction of the flags the Edge had then,
\* whatever "dir" entry the Edge's own attribute map holds, and the other
\* attributes pass through unchanged.
C11_DirectionFromFlags ==
    [][\A n \in (Len(connects) + 1)..Len(connects') :
          LET c == connects'[n]
              body == diagrams'[0 - c.d].body
              l == body[Len(diagrams[0 - c.d].body) + n - Len(connects)]
          IN  /\ l.k = "edge"
              /\ l.dir = C11_Direction(c.edge.forward, c.edge.reverse)
              /\ l.c = c.edge._attrs.label]_vars

\* An Edge that is only reversed and holds a "dir" of its own was connected,
\* and so was an Edge with both flags set
C11_Witness ==
    /\ \E n \in 1..Len(connects) :
          /\ connects[n].edge._attrs.dir = "both"
          /\ ~connects[n].edge.forward /\ connects[n].edge.reverse
          /\ \E k \in EdgeIdx(diagrams[0 - connects[n].d].body) :
                diagrams[0 - connects[n].d].body[k].dir = "back"
    /\ \E n \in 1..Len(connects) :
          connects[n].edge.forward /\ connects[n].edge.reverse

C13_Left == {"Node.__sub__", "Node.__rshift__", "Node.__lshift__"}
C13_Right == {"Node.__rsub__", "Node.__rrshift__", "Node.__rlshift__"}

\* The call in r is one of the six forms with a sequence of Nodes
C13_OnNodes(r) ==
    \/ r.op \in C13_Left /\ r.args[2].t = "list"
    \/ r.op \in C13_Right /\ \A i \in 1..Len(r.args[2]) : r.args[2][i].t = "node"

C13_Sequence(r) ==
    IF r.op \in C13_Left THEN r.args[2].v
    ELSE [i \in 1..Len(r.args[2]) |-> r.args[2][i].v]

C12_Palette == <<"#E5F5FD", "#EBF3E7", "#ECE8F6", "#FDF7E3">>

\* C12: a Diagram has depth 0; every Cluster or Node that has a parent has
\* the parent's depth plus one, and its background colour is the entry
\* depth mod 4 of the palette, so that two groupings whose depths differ by
\* four have the same background colour.
C12_DepthAndColour ==
    /\ \A i \in 1..Len(diagrams) : diagrams[i].depth = 0
    /\ \A j \in 1..Len(objs) :
          /\ objs[j].parent # None =>
                objs[j].depth = Depth(objs[j].parent) + 1
          /\ bgcolors[objs[j].bg] = C12_Palette[(objs[j].depth % 4) + 1]
    /\ \A j, h \in 1..Len(objs) :
          objs[h].depth = objs[j].depth + 4 =>
             bgcolors[objs[h].bg] = bgcolors[objs[j].bg]

\* A Node entered at depth 5 has the colour of a grouping at depth 1, and
\* the groupings between them have the three other colours
C12_Witness ==
    \E j, h \in 1..Len(objs) :
        /\ objs[j].depth = 1 /\ objs[h].depth = 5
        /\ objs[h].kind = "Node" /\ objs[h].st = "open"
        /\ bgcolors[objs[h].bg] = bgcolors[objs[j].bg]
        /\ Cardinality({objs[m].bg : m \in 1..Len(objs)}) = 4

\* C13: inside a diagram, each of n - S, n >> S, n << S, S - n, S >> n and
\* S << n with a sequence S of k Nodes returns normally and registers
\* exactly k connections, the i-th between n and S[i], with n as the source
\* in the forms n OP S and S[i] as the source in the forms S OP n; >> sets
\* only the forward flag of each, << only the reverse flag, - neither.
C13_OperatorsBroadcast ==
    [][(last'.op \in C13_Left \cup C13_Right /\ C13_OnNodes(last')
        /\ DiagramScopeActive) =>
          LET n == last'.args[1]
              S == C13_Sequence(last')
              left == last'.op \in C13_Left
          IN  /\ last'.err = "none"
              /\ Len(connects') = Len(connects) + Len(S)
              /\ SubSeq(connects', 1, Len(connects)) = connects
              /\ \A i \in 1..Len(S) :
                    LET c == connects'[Len(connects) + i]
                    IN  /\ c.node = (IF left THEN n ELSE S[i])
                        /\ c.node2 = (IF left THEN S[i] ELSE n)
                        /\ c.edge.forward =
                              (last'.op \in {"Node.__rshift__", "Node.__rrshift__"})
                        /\ c.edge.reverse =
                              (last'.op \in {"Node.__lshift__", "Node.__rlshift__"})]_vars

\* S >> n with two different Nodes in S has registered two connections
C13_Witness ==
    /\ last.op = "Node.__rrshift__"
    /\ last.err = "none"
    /\ Len(last.args[2]) = 2
    /\ last.args[2][1].t = "node" /\ last.args[2][2].t = "node"
    /\ last.args[2][1].v # last.args[2][2].v
    /\ Len(connects) = 2
    /\ connects[1].node = last.args[2][1].v
    /\ connects[2].node = last.args[2][2].v
    /\ connects[2].node2 = last.args[1]

\* C20: Edge.connect(target) with one Node: an Edge without a source takes
\* target as its source, registers nothing and returns the Edge; an Edge
\* with a source registers, on the active diagram, exactly one connection
\* (source, target) that carries this Edge, keeps its source and returns
\* target.
C20_EdgeConnectNode ==
    [][(last'.op = "Edge.connect" /\ last'.args[2].t = "node") =>
          LET e == last'.args[1]
              target == last'.args[2].v[1]
          IN  IF edgeobjs[e].node = None
              THEN /\ last'.err = "none"
                   /\ edgeobjs' = [edgeobjs EXCEPT ![e].node = target]
                   /\ connects' = connects
                   /\ diagrams' = diagrams
                   /\ last'.ret = <<"edge", e>>
              ELSE DiagramScopeActive =>
                   /\ last'.err = "none"
                   /\ Len(connects') = Len(connects) + 1
                   /\ SubSeq(connects', 1, Len(connects)) = connects
                   /\ connects'[Len(connects')].d = ctxDiagram.val
                   /\ connects'[Len(connects')].node = edgeobjs[e].node
                   /\ connects'[Len(connects')].node2 = target
                   /\ connects'[Len(connects')].eref = e
                   /\ connects'[Len(connects')].edge = edgeobjs[e]
                   /\ Len(diagrams'[0 - ctxDiagram.val].body) =
                        Len(diagrams[0 - ctxDiagram.val].body) + 1
                   /\ edgeobjs' = edgeobjs
                   /\ last'.ret = <<"node", target>>]_vars

\* An Edge that had adopted one Node was connected to another Node and
\* returned it
C20_Witness ==
    /\ last.op = "Edge.connect"
    /\ last.err = "none"
    /\ last.args[2].t = "node"
    /\ last.ret = <<"node", last.args[2].v[1]>>
    /\ edgeobjs[last.args[1]].node # last.args[2].v[1]
    /\ \E n \in 1..Len(connects) :
          /\ connects[n].eref = last.args[1]
          /\ connects[n].node = edgeobjs[last.args[1]].node
          /\ connects[n].node2 = last.args[2].v[1]

\* C14: whenever the active-grouping pointer is set to an object, that
\* object is a scope that is open now (one of the with-statements the
\* program is inside, so an ancestor of what is constructed next); it is
\* never a grouping or a diagram whose scope has exited.
C14_PointerNeverStale ==
    (ctxCluster.set /\ ctxCluster.val # None) =>
        \E k \in 1..Len(stack) : stack[k] = ctxCluster.val

\* What getcluster() returns for a value of the pointer
C15_Value(ptr) == IF ptr.set THEN ptr.val ELSE None

\* C15: when the scope of a Cluster or of a Node used as a container exits,
\* the active-grouping pointer reads as it did just before that scope was
\* entered (nothing, when it was entered at the top level of a diagram
\* with no grouping active).
C15_PointerRestored ==
    [][(Len(stack') < Len(stack) /\ IsObj(stack[Len(stack)])) =>
          C15_Value(ctxCluster') = C15_Value(ptrBefore[Len(stack)])]_vars

\* The body of the graph handle of a Diagram or of a Cluster or Node
BodyOf(r) == IF IsDiagram(r) THEN diagrams[0 - r].body ELSE objs[r].body

\* C16: once a container Node has exited its scope, the graph handle of its
\* parent holds a sub-graph whose name is the Node's boundary identity, so
\* that an ltail or lhead naming that identity names a sub-graph that exists.
C16_SubgraphUnderBoundaryId ==
    \A j \in 1..Len(objs) :
        (objs[j].kind = "Node" /\ objs[j].st = "exited"
         /\ objs[j].parent # None) =>
            \E k \in 1..Len(BodyOf(objs[j].parent)) :
                /\ BodyOf(objs[j].parent)[k].k = "open"
                /\ BodyOf(objs[j].parent)[k].a = objs[j].id

\* The identity a Node had when it was entered
C17_EntryId(j) ==
    IF objs[j].st = "exited" THEN StripPrefix(objs[j].id) ELSE objs[j].id

\* C17: from the entry of a Node as a container until its diagram closes,
\* the Node is no value of its parent's member mapping and the parent's
\* graph handle has no leaf line of its own for the Node's identity.
C17_ContainerIsNoLeaf ==
    \A j \in 1..Len(objs) :
        (objs[j].kind = "Node" /\ objs[j].st \in {"open", "exited"}
         /\ objs[j].parent # None
         /\ diagrams[0 - objs[j].diagram].st # "closed") =>
            LET p == objs[j].parent
            IN  /\ IsObj(p) =>
                      \A m \in 1..Len(objs[p].nodes) : objs[p].nodes[m].node # j
                /\ \A k \in 1..Len(BodyOf(p)) :
                      ~(/\ BodyOf(p)[k].k = "node"
                        /\ BodyOf(p)[k].ind = 1
                        /\ BodyOf(p)[k].a = C17_EntryId(j))

\* C18: the member mapping and the sub-grouping sequence of a Cluster or
\* Node change only while its scope is open: no step taken before it is
\* entered or after it has exited changes either.
C18_MembersChangeOnlyWhileOpen ==
    [][\A j \in 1..Len(objs) :
          objs[j].st # "open" =>
             /\ objs'[j].nodes = objs[j].nodes
             /\ objs'[j].subgraphs = objs[j].subgraphs]_vars

\* The Nodes a grouping owns, in the order of its member mapping
C19_Owned(j) == [i \in 1..Len(objs[j].nodes) |-> objs[j].nodes[i].node]

\* The Nodes of j, then depth-first those of each sub-grouping of j
RECURSIVE C19_Walk(_)
RECURSIVE C19_WalkEach(_, _)
C19_Walk(j) == C19_Owned(j) \o C19_WalkEach(objs[j].subgraphs, 1)
C19_WalkEach(subs, i) ==
    IF i > Len(subs) THEN <<>>
    ELSE C19_Walk(subs[i]) \o C19_WalkEach(subs, i + 1)

\* C19: a walk over nodes_iter of a Cluster or Node ends normally and has
\* yielded the Nodes the grouping owns followed, depth-first, by the Nodes
\* its sub-groupings own at any depth, as they are at the time of the walk;
\* so it yields a Node whenever only a nested sub-grouping has one.
C19_NodesIterWalksAll ==
    last.op = "Cluster.nodes_iter" =>
        /\ last.err = "none"
        /\ last.ret = C19_Walk(last.args[1])

\* The Edge an element of the sequence was before the call: itself, or for
\* a Node no Edge yet, with neither flag set
C21_FlagBefore(el, flag) ==
    IF el.t = "edge"
    THEN (IF flag = "forward" THEN edgeobjs[el.v].forward
          ELSE edgeobjs[el.v].reverse)
    ELSE FALSE

\* C21: Edge.append(sequence, forward, reverse) returns one Edge per element
\* of the sequence, in order (the element itself when it is an Edge, an
\* Edge for the Node otherwise); each returned Edge carries the attribute
\* map the calling Edge had when append was called, has its forward flag
\* set when forward was requested and its reverse flag set when reverse was
\* requested, and a flag that was not requested is as it was before.
C21_AppendOnePerElement ==
    [][last'.op = "Edge.append" =>
          LET e == last'.args[1]
              other == last'.args[2]
              forward == last'.args[3]
              reverse == last'.args[4]
              result == last'.ret
          IN  /\ Len(result) = Len(other)
              /\ \A i \in 1..Len(other) :
                    /\ other[i].t = "edge" => result[i].ref = other[i].v
                    /\ other[i].t = "node" => result[i].edge.node = other[i].v
                    /\ result[i].edge._attrs = edgeobjs[e]._attrs
                    /\ forward => result[i].edge.forward
                    /\ reverse => result[i].edge.reverse
                    /\ ~forward => (result[i].edge.forward
                                       = C21_FlagBefore(other[i], "forward"))
                    /\ ~reverse => (result[i].edge.reverse
                                       = C21_FlagBefore(other[i], "reverse"))]_vars

\* The diagram a Diagram, Cluster or Node belongs to: the end of its chain
\* of parents (None for a chain that ends in no diagram)
RECURSIVE C22_Root(_)
C22_Root(r) == IF IsObj(r) THEN C22_Root(objs[r].parent) ELSE r

\* The diagram i has closed
C22_Closed(i) == diagrams[i].st = "closed"

\* No scope the program is inside belongs to a diagram that has closed
C22_InsideActiveOnly ==
    \A k \in 1..Len(stack), i \in 1..Len(diagrams) :
        C22_Closed(i) => C22_Root(stack[k]) # DiagramRef(i)

\* C22: a Node constructed while diagram D is the active diagram, inside
\* scopes of D only, is never registered on a diagram that has already
\* closed, nor on a grouping whose chain of parents ends in one, and its
\* construction changes no diagram that has already closed.
C22_NodeJoinsActiveDiagram ==
    [][(Len(objs') > Len(objs) /\ objs'[Len(objs')].kind = "Node"
        /\ C22_InsideActiveOnly) =>
          /\ \A i \in 1..Len(diagrams) :
                diagrams[i].st = "closed" =>
                   /\ C22_Root(objs'[Len(objs')].parent) # DiagramRef(i)
                   /\ diagrams'[i] = diagrams[i]]_vars

\* The members of a mapping other than the Node j
C23_OtherMembers(nodes, j) ==
    LET Other(m) == m.node # j IN SelectSeq(nodes, Other)

\* The lines of a body other than the leaf lines of the identity id
C23_OtherLines(body, id) ==
    LET Other(l) == ~(l.k = "node" /\ l.ind = 1 /\ l.a = id)
    IN  SelectSeq(body, Other)

\* C23: when a Node is entered as a container, the graph handle of its
\* parent keeps every line that is not the Node's own leaf line (the lines
\* of other nodes, of embedded sub-graphs and of edges, in their order),
\* and the parent's member mapping keeps every other member, whatever the
\* identities are.
C23_RemovesOnlyOwnLeaf ==
    [][\A j \in 1..Len(objs) :
          (objs[j].kind = "Node" /\ objs[j].st = "init"
           /\ objs'[j].st = "open" /\ objs[j].parent # None) =>
             LET p == objs[j].parent
                 after == IF IsDiagram(p) THEN diagrams'[0 - p].body
                          ELSE objs'[p].body
             IN  /\ C23_OtherLines(after, objs[j].id)
                      = C23_OtherLines(BodyOf(p), objs[j].id)
                 /\ IsObj(p) =>
                       C23_OtherMembers(objs'[p].nodes, j)
                          = C23_OtherMembers(objs[p].nodes, j)]_vars

====
